---- MODULE Spec2Model ----
(***************************************************************************)
(* A model of mcp-firestore-server (src/index.js): the project-ID          *)
(* resolver detectProjectId, the startup routine startServer and the       *)
(* tools/call dispatcher, with the Firestore backend, the gcloud CLI, the  *)
(* process environment and the file system as the environment.             *)
(***************************************************************************)
EXTENDS Naturals, Sequences, FiniteSets

VARIABLES
  env,                \* process.env: variable name -> JavaScript value
  gcloud,             \* what `gcloud config get-value project` does: exit status, stdout
  cwd,                \* process.cwd(): a path, the sequence of its directory names
  fs,                 \* the ancestors of cwd: directory -> file name -> text or NoFile
  pc,                 \* where startServer is: start, probing, connecting, running, exited
  exitCode,           \* the codes process.exit was called with: none while the process lives
  projectId,          \* const projectId of startServer
  detectCalls,        \* how many times detectProjectId has been called
  detectThrew,        \* whether detectProjectId raised
  fsLog,              \* the execSync / existsSync / readFileSync calls of detectProjectId
  dbCreated,          \* whether admin.firestore(app) has returned the client
  probe,              \* the connectivity probe's get(): none, pending, ok, failed
  handlers,           \* the request schemas server.setRequestHandler has been given
  store,              \* the Firestore backend: collection -> document id -> document
  autoIds,            \* how many auto-generated document ids the client has produced
  requests,           \* the tools/call requests received, in arrival order
  listed              \* how many tools/list requests have been answered

envVars == <<env, gcloud, cwd, fs>>
startVars == <<pc, exitCode, projectId, detectCalls, detectThrew, fsLog, dbCreated, probe,
               handlers>>
serveVars == <<store, autoIds, requests, listed>>
vars == <<env, gcloud, cwd, fs, pc, exitCode, projectId, detectCalls, detectThrew, fsLog,
          dbCreated, probe, handlers, store, autoIds, requests, listed>>

(***************************************************************************)
(* JavaScript values: a type tag and the value's literal text.             *)
(***************************************************************************)
Undefined == [t |-> "undefined", v |-> ""]
Null == [t |-> "null", v |-> ""]
Str(s) == [t |-> "string", v |-> s]
Num(s) == [t |-> "number", v |-> s]
Bool(s) == [t |-> "boolean", v |-> s]
EmptyObject == [t |-> "object", v |-> "{}"]
EmptyArray == [t |-> "array", v |-> "[]"]

\* ToBoolean, as applied by `if (x)`, `!x` and `x || y`
Truthy(val) ==
  CASE val.t = "undefined" -> FALSE
    [] val.t = "null" -> FALSE
    [] val.t = "string" -> val.v # ""
    [] val.t = "number" -> val.v \notin {"0", "NaN"}
    [] val.t = "boolean" -> val.v = "true"
    [] OTHER -> TRUE

\* String.prototype.trim on the outputs the CLI is given here
Trim(s) ==
  CASE s \in {"", "\n", " \n"} -> ""
    [] s = "alpha\n" -> "alpha"
    [] s = "beta\n" -> "beta"
    [] OTHER -> s

(***************************************************************************)
(* The file system and JSON.                                               *)
(***************************************************************************)
NoFile == "<no such file>"
FileNames == {"firebase.json", ".firebaserc"}

\* What JSON.parse makes of a text: a SyntaxError, or the value, given by the
\* kind of the top-level value, the kind of its "projects" member and the
\* value of projects.default.
Parsed(top, projects, default) ==
  [threw |-> FALSE, top |-> top, projects |-> projects, default |-> default]
SyntaxError == [threw |-> TRUE, top |-> "", projects |-> "", default |-> Undefined]

JSONParse(text) ==
  CASE text = "{ \"projects\": " -> SyntaxError
    [] text = "null" -> Parsed("null", "absent", Undefined)
    [] text = "{}" -> Parsed("object", "absent", Undefined)
    [] text = "{\"projects\":null}" -> Parsed("object", "null", Undefined)
    [] text = "{\"projects\":{}}" -> Parsed("object", "object", Undefined)
    [] text = "{\"projects\":{\"default\":\"\"}}" -> Parsed("object", "object", Str(""))
    [] text = "{\"projects\":{\"default\":\" \"}}" -> Parsed("object", "object", Str(" "))
    [] text = "{\"projects\":{\"default\":\"alpha\"}}" -> Parsed("object", "object", Str("alpha"))
    [] text = "{\"projects\":{\"default\":\"beta\"}}" -> Parsed("object", "object", Str("beta"))
    [] text = "{\"projects\":{\"default\":123}}" -> Parsed("object", "object", Num("123"))
    [] text = "{\"projects\":{\"default\":0}}" -> Parsed("object", "object", Num("0"))
    [] text = "{\"projects\":{\"default\":true}}" -> Parsed("object", "object", Bool("true"))
    [] text = "{\"projects\":{\"default\":false}}" -> Parsed("object", "object", Bool("false"))
    [] text = "{\"projects\":{\"default\":null}}" -> Parsed("object", "object", Null)
    [] text = "{\"projects\":{\"default\":{}}}" -> Parsed("object", "object", EmptyObject)
    [] text = "{\"projects\":{\"default\":[]}}" -> Parsed("object", "object", EmptyArray)
    [] OTHER -> SyntaxError

\* config.projects?.default: a TypeError on null, undefined when projects is
\* missing, null or has no member "default"
ProjectsDefault(json) ==
  IF json.top = "null" THEN [threw |-> TRUE, value |-> Undefined]
  ELSE IF json.top = "object" /\ json.projects = "object"
       THEN [threw |-> FALSE, value |-> json.default]
       ELSE [threw |-> FALSE, value |-> Undefined]

\* path.join(dir, '..'): the parent, and the root is its own parent
JoinParent(dir) == IF dir = <<>> THEN <<>> ELSE SubSeq(dir, 1, Len(dir) - 1)

LogEntry(op, dir, file) == [op |-> op, dir |-> dir, file |-> file]

(***************************************************************************)
(* detectProjectId                                                         *)
(***************************************************************************)
MaxWalkLevels == 10

Returned(value, log) == [kind |-> "return", value |-> value, log |-> log]
NextCandidate(log) == [kind |-> "next", value |-> Undefined, log |-> log]
Thrown(log) == [kind |-> "throw", value |-> Undefined, log |-> log]

\* the body of a `try` around one config file: parse it and return
\* projects.default when it is truthy
TryConfigFile(dir, file, log) ==
  LET text == fs[dir][file]
      read == Append(log, LogEntry("readFileSync", dir, file))
      json == JSONParse(text)
      field == ProjectsDefault(json)
  IN IF json.threw THEN Thrown(read)
     ELSE IF field.threw THEN Thrown(read)
     ELSE IF Truthy(field.value) THEN Returned(field.value, read)
     ELSE NextCandidate(read)

\* a faulty catch, for comparison: the exception of an invalid file escapes
CatchRethrows(outcome) == outcome

\* `catch (e) { }`: an invalid file is passed over
CatchInvalid(outcome) ==
  IF outcome.kind = "throw" THEN NextCandidate(outcome.log) ELSE outcome

\* if (existsSync(path)) { try { ... } catch (e) { } }
CheckConfigFile(dir, file, log) ==
  LET seen == Append(log, LogEntry("existsSync", dir, file))
  IN IF fs[dir][file] = NoFile THEN NextCandidate(seen)
     ELSE CatchInvalid(TryConfigFile(dir, file, seen))

\* a faulty loop test, for comparison: one level too many
WalkContinuesOneMore(i) == i <= MaxWalkLevels

\* the loop test of the walk, i counting from 0
WalkContinues(i) == i < MaxWalkLevels

\* parentDir === currentDir
ReachedRoot(parentDir, currentDir) == parentDir = currentDir

\* a faulty order, for comparison: .firebaserc checked first
WalkOrderSwapped == <<".firebaserc", "firebase.json">>

\* the files of one directory, in the order the loop body checks them
WalkOrder == <<"firebase.json", ".firebaserc">>

RECURSIVE Walk(_, _, _)
Walk(currentDir, i, log) ==
  IF ~WalkContinues(i) THEN Returned(Null, log)
  ELSE LET first == CheckConfigFile(currentDir, WalkOrder[1], log)
       IN IF first.kind # "next" THEN first
          ELSE LET second == CheckConfigFile(currentDir, WalkOrder[2], first.log)
                   parentDir == JoinParent(currentDir)
               IN IF second.kind # "next" THEN second
                  ELSE IF ReachedRoot(parentDir, currentDir) THEN Returned(Null, second.log)
                  ELSE Walk(parentDir, i + 1, second.log)

\* the environment variables, in the order they are tried
EnvOrder == <<"GOOGLE_CLOUD_PROJECT", "FIREBASE_PROJECT_ID", "GCLOUD_PROJECT">>
EnvNames == {EnvOrder[k] : k \in 1..Len(EnvOrder)}

\* execSync(...).trim() inside its try: a non-zero exit status raises, and
\* the catch passes over it
GcloudProject(log) ==
  LET ran == Append(log, LogEntry("execSync", <<>>, "gcloud"))
      out == Str(Trim(gcloud.stdout))
  IN IF gcloud.status # 0 THEN NextCandidate(ran)
     ELSE IF Truthy(out) /\ out.v # "" THEN Returned(out, ran)
     ELSE NextCandidate(ran)

DetectProjectId ==
  IF Truthy(env[EnvOrder[1]]) THEN Returned(env[EnvOrder[1]], <<>>)
  ELSE IF Truthy(env[EnvOrder[2]]) THEN Returned(env[EnvOrder[2]], <<>>)
  ELSE IF Truthy(env[EnvOrder[3]]) THEN Returned(env[EnvOrder[3]], <<>>)
  ELSE LET cli == GcloudProject(<<>>)
       IN IF cli.kind = "return" THEN cli ELSE Walk(cwd, 0, cli.log)

(***************************************************************************)
(* startServer                                                             *)
(***************************************************************************)
NotExited == {}
ExitFailure == 1

\* process.exit(code)
Exit(code) == pc' = "exited" /\ exitCode' = {code}

\* a faulty test, for comparison: `projectId === undefined`, which lets null through
ProjectIdUndefined(value) == value = Undefined

\* if (!projectId)
ProjectIdMissing(value) == ~Truthy(value)

\* Lines 80-117: resolve the project ID, exit when there is none, create the
\* app and the Firestore client and start the connectivity probe.  An
\* exception of detectProjectId reaches the outer catch (lines 473-476).
StartServer ==
  /\ pc = "start"
  /\ LET found == DetectProjectId
     IN /\ detectCalls' = detectCalls + 1
        /\ fsLog' = found.log
        /\ detectThrew' = (found.kind = "throw")
        /\ projectId' = IF found.kind = "return" THEN found.value ELSE Undefined
        /\ IF found.kind = "throw" \/ ProjectIdMissing(found.value)
           THEN Exit(ExitFailure) /\ dbCreated' = dbCreated /\ probe' = probe
           ELSE pc' = "probing" /\ exitCode' = exitCode /\ dbCreated' = TRUE
                /\ probe' = "pending"
  /\ UNCHANGED <<handlers, envVars, serveVars>>

\* Lines 118, 127-468: the probe's get() resolved; the server is created, both
\* request handlers are registered and server.connect(transport) is called.
ProbeSucceeds ==
  /\ pc = "probing"
  /\ probe' = "ok"
  /\ handlers' = {"tools/list", "tools/call"}
  /\ pc' = "connecting"
  /\ UNCHANGED <<exitCode, projectId, detectCalls, detectThrew, fsLog, dbCreated,
                 envVars, serveVars>>

\* a faulty catch, for comparison: the failure is reported and startup goes on
ProbeCatchContinues == pc' = "connecting" /\ exitCode' = exitCode

\* the catch of the probe: report and process.exit(1)
ProbeCatch == Exit(ExitFailure)

\* Lines 119-125: the probe's get() rejected
ProbeFails ==
  /\ pc = "probing"
  /\ probe' = "failed"
  /\ ProbeCatch
  /\ UNCHANGED <<projectId, detectCalls, detectThrew, fsLog, dbCreated, handlers,
                 envVars, serveVars>>

\* Lines 468-472: server.connect resolved, the transport delivers requests
ConnectResolves ==
  /\ pc = "connecting"
  /\ pc' = "running"
  /\ UNCHANGED <<exitCode, projectId, detectCalls, detectThrew, fsLog, dbCreated, probe, handlers,
                 envVars, serveVars>>

(***************************************************************************)
(* Initial states: the process before startServer runs.                    *)
(***************************************************************************)
MaxDepth == 10        \* cwd is at most this many directories below the root

Collections == {"users", "users/s/t"}
AutoIdOrder == <<"auto1", "auto2", "auto3", "auto4">>
SuppliedIds == {"u1"}
DocIds == SuppliedIds \cup {AutoIdOrder[k] : k \in 1..Len(AutoIdOrder)}
Fields == {"a", "b"}
NoFields == [f \in Fields |-> 0]         \* 0: the field is absent
NoDoc == [exists |-> FALSE, data |-> NoFields]

InitProcess ==
  /\ pc = "start"
  /\ exitCode = NotExited
  /\ projectId = Undefined
  /\ detectCalls = 0
  /\ detectThrew = FALSE
  /\ fsLog = <<>>
  /\ dbCreated = FALSE
  /\ probe = "none"
  /\ handlers = {}
  /\ store = [c \in Collections |-> [d \in DocIds |-> NoDoc]]
  /\ autoIds = 0
  /\ requests = <<>>
  /\ listed = 0

DirPath(depth) == [k \in 1..depth |-> "d"]
\* the directories the walk can meet, nearest first: cwd, its parent, ..., the root
Ancestors(dir) == [k \in 1..(Len(dir) + 1) |-> SubSeq(dir, 1, Len(dir) + 1 - k)]
AncestorSet(dir) == {Ancestors(dir)[k] : k \in 1..(Len(dir) + 1)}

EnvSource(name) == [kind |-> "env", name |-> name, dir |-> <<>>]
CliSource == [kind |-> "cli", name |-> "gcloud", dir |-> <<>>]
FileSource(dir, file) == [kind |-> "file", name |-> file, dir |-> dir]

GcloudFailed == [status |-> 1, stdout |-> ""]
GcloudMissing == [status |-> 127, stdout |-> ""]
GcloudPrints(text) == [status |-> 0, stdout |-> text]

FileTexts ==
  { "{ \"projects\": ", "null", "{}", "{\"projects\":null}", "{\"projects\":{}}",
    "{\"projects\":{\"default\":\"\"}}", "{\"projects\":{\"default\":\" \"}}",
    "{\"projects\":{\"default\":\"alpha\"}}", "{\"projects\":{\"default\":\"beta\"}}",
    "{\"projects\":{\"default\":123}}", "{\"projects\":{\"default\":0}}",
    "{\"projects\":{\"default\":true}}", "{\"projects\":{\"default\":false}}",
    "{\"projects\":{\"default\":null}}", "{\"projects\":{\"default\":{}}}",
    "{\"projects\":{\"default\":[]}}" }

\* what a source can hold; the first of each is the source left unconfigured
Unconfigured(source) ==
  CASE source.kind = "env" -> Undefined
    [] source.kind = "cli" -> GcloudFailed
    [] OTHER -> NoFile
Settings(source) ==
  {Unconfigured(source)} \cup
  CASE source.kind = "env" -> {Str(""), Str("alpha"), Str("beta")}
    [] source.kind = "cli" -> {GcloudMissing, GcloudPrints(""), GcloudPrints(" \n"),
                               GcloudPrints("alpha\n"), GcloudPrints("beta\n")}
    [] OTHER -> FileTexts

AllSources(dir) ==
  {EnvSource(n) : n \in EnvNames} \cup {CliSource}
    \cup {FileSource(d, f) : d \in AncestorSet(dir), f \in FileNames}

\* a source holding nothing, or a well-formed project name
PlainSettings(source) ==
  {Unconfigured(source)} \cup
  CASE source.kind = "env" -> {Str("alpha"), Str("beta")}
    [] source.kind = "cli" -> {GcloudPrints("alpha\n"), GcloudPrints("beta\n")}
    [] OTHER -> {"{\"projects\":{\"default\":\"alpha\"}}",
                 "{\"projects\":{\"default\":\"beta\"}}"}

Configure(source, s1, v1, s2, v2) ==
  IF source = s1 THEN v1 ELSE IF source = s2 THEN v2 ELSE Unconfigured(source)

\* The resolver's inputs: a working directory at any depth down to MaxDepth,
\* one source in any of its settings, a second source (of higher or of lower
\* priority) holding a project name or nothing, the others left unconfigured.
InitResolve ==
  /\ InitProcess
  /\ \E depth \in 0..MaxDepth :
       \E s1 \in AllSources(DirPath(depth)), s2 \in AllSources(DirPath(depth)) :
         \E v1 \in Settings(s1), v2 \in PlainSettings(s2) :
           /\ cwd = DirPath(depth)
           /\ env = [n \in EnvNames |-> Configure(EnvSource(n), s1, v1, s2, v2)]
           /\ gcloud = Configure(CliSource, s1, v1, s2, v2)
           /\ fs = [d \in AncestorSet(DirPath(depth)) |->
                      [f \in FileNames |->
                         Configure(FileSource(d, f), s1, v1, s2, v2)]]

NextStartup ==
  \/ StartServer
  \/ ProbeSucceeds
  \/ ProbeFails
  \/ ConnectResolves

\* detectProjectId applied to each of its inputs, by the one step that calls it
NextResolve == StartServer

SpecResolve == InitResolve /\ [][NextResolve]_vars

(***************************************************************************)
(* The Firestore backend, as the seven tools use it.                       *)
(***************************************************************************)
DefaultLimit == 10
FieldValues == 1..2
\* document ids in the backend's order of document names
IdOrder == <<"auto1", "auto2", "auto3", "auto4", "u1">>
CollectionOrder == <<"users">>

NoData == [defined |-> FALSE, fields |-> NoFields]
Data(fields) == [defined |-> TRUE, fields |-> fields]

NoOp == [kind |-> "none", collection |-> "", id |-> "", fields |-> NoFields,
         limit |-> 0, orderBy |-> "", where |-> Undefined]
Op(kind, collection, id, fields) ==
  [kind |-> kind, collection |-> collection, id |-> id, fields |-> fields,
   limit |-> 0, orderBy |-> "", where |-> Undefined]
QueryOp(collection, limit, orderBy, where) ==
  [kind |-> "query", collection |-> collection, id |-> "", fields |-> NoFields,
   limit |-> limit, orderBy |-> orderBy, where |-> where]

\* the fields of `new` laid over those of `old`
MergeFields(old, new) == [f \in Fields |-> IF new[f] # 0 THEN new[f] ELSE old[f]]

\* a failed precondition of the backend: update() of a document that does not exist
BackendRejects(op) ==
  op.kind = "update" /\ ~store[op.collection][op.id].exists

\* the store after the backend has applied an operation
Applied(op) ==
  LET old == store[op.collection][op.id]
      put(doc) == [store EXCEPT ![op.collection][op.id] = doc]
  IN CASE op.kind \in {"set", "add"} -> put([exists |-> TRUE, data |-> op.fields])
       [] op.kind = "setMerge" ->
            put([exists |-> TRUE, data |-> MergeFields(old.data, op.fields)])
       [] op.kind = "update" ->
            put([exists |-> TRUE, data |-> MergeFields(old.data, op.fields)])
       [] op.kind = "delete" -> put(NoDoc)
       [] OTHER -> store

NumberOf(val) == IF val.v = "1" THEN 1 ELSE IF val.v = "2" THEN 2 ELSE 0

\* where(field "a", "==", value): equality is between values of one type
WhereMatches(doc, where) ==
  where.t = "undefined" \/ (where.t = "number" /\ doc.data["a"] = NumberOf(where))

Take(seq, n) == IF Len(seq) <= n THEN seq ELSE SubSeq(seq, 1, n)

RECURSIVE OrderedBy(_, _, _)
\* the ids of `ids` whose document has `field`, by the field's value, then by name
OrderedBy(coll, field, value) ==
  IF value \notin FieldValues THEN <<>>
  ELSE SelectSeq(IdOrder, LAMBDA d : coll[d].exists /\ coll[d].data[field] = value)
         \o OrderedBy(coll, field, value + 1)

\* the snapshot of a query: [id, data] of the matching documents
QueryDocs(op) ==
  LET coll == store[op.collection]
      ids == IF op.orderBy = "" THEN SelectSeq(IdOrder, LAMBDA d : coll[d].exists)
             ELSE OrderedBy(coll, op.orderBy, 1)
      hits == SelectSeq(ids, LAMBDA d : WhereMatches(coll[d], op.where))
      page == Take(hits, op.limit)
  IN [k \in 1..Len(page) |-> [id |-> page[k], data |-> coll[page[k]].data]]

ListCollections ==
  SelectSeq(CollectionOrder, LAMBDA c : \E d \in DocIds : store[c][d].exists)

(***************************************************************************)
(* The tools/call handler.                                                 *)
(***************************************************************************)
ToolNames == <<"query_collection", "get_document", "query_with_where", "list_collections",
               "create_document", "update_document", "delete_document">>
KnownTools == {ToolNames[k] : k \in 1..Len(ToolNames)}

Success(body) == [isError |-> FALSE, body |-> body]
\* a faulty catch, for comparison: the error payload without isError
CatchWithoutErrorFlag(message) ==
  [isError |-> FALSE, body |-> [error |-> message, stack |-> "Error: " \o message]]

\* the catch of the handler: the error's message and stack, isError: true
CatchToolError(message) ==
  [isError |-> TRUE, body |-> [error |-> message, stack |-> "Error: " \o message]]

\* what a handler has done when it reaches its first await, or has thrown
Issued(op) == [threw |-> FALSE, message |-> "", op |-> op]
Throws(message) == [threw |-> TRUE, message |-> message, op |-> NoOp]

\* db.collection(path) takes a non-empty string
ValidPath(val) == val.t = "string" /\ val.v # ""

\* path.split('/') of the document paths sent here
PathSegments(path) ==
  CASE path = "s/t/u1" -> <<"s", "t", "u1">>
    [] path = "s/u1" -> <<"s", "u1">>
    [] OTHER -> <<path>>

\* collection.doc(path) takes a non-empty string that, below the collection,
\* points to a document: an odd number of segments
ValidDocPath(val) == ValidPath(val) /\ Len(PathSegments(val.v)) % 2 = 1

RECURSIVE JoinPath(_, _)
JoinPath(prefix, segments) ==
  IF segments = <<>> THEN prefix
  ELSE JoinPath(prefix \o "/" \o Head(segments), Tail(segments))

\* collection.doc(path): the reference's parent collection and its id, the
\* last segment of the path
DocRef(collection, path) ==
  LET segments == PathSegments(path)
  IN [collection |-> JoinPath(collection, SubSeq(segments, 1, Len(segments) - 1)),
      id |-> segments[Len(segments)]]

\* a document call on collection.doc(path)
DocOp(kind, collection, path, fields) ==
  Op(kind, DocRef(collection, path).collection, DocRef(collection, path).id, fields)

\* args.limit || 10
LimitOf(args) == IF Truthy(args.limit) THEN NumberOf(args.limit) ELSE DefaultLimit

\* create_document: doc(docId).set(data) when docId is truthy, else add(data)
CreateDocument(args, autoId) ==
  IF ~ValidPath(args.collection) THEN Throws("collectionPath is not a valid resource path")
  ELSE IF Truthy(args.docId)
       THEN IF ~ValidDocPath(args.docId) THEN Throws("documentPath is not a valid resource path")
            ELSE IF ~args.data.defined THEN Throws("data is not a valid Firestore document")
            ELSE Issued(DocOp("set", args.collection.v, args.docId.v, args.data.fields))
       ELSE IF ~args.data.defined THEN Throws("data is not a valid Firestore document")
            ELSE Issued(Op("add", args.collection.v, autoId, args.data.fields))

\* update_document: set(data, {merge: true}) when merge is truthy, else update(data)
UpdateDocument(args) ==
  IF ~ValidPath(args.collection) THEN Throws("collectionPath is not a valid resource path")
  ELSE IF ~ValidDocPath(args.docId) THEN Throws("documentPath is not a valid resource path")
  ELSE IF ~args.data.defined THEN Throws("data is not a valid Firestore document")
  ELSE IF Truthy(args.merge)
       THEN Issued(DocOp("setMerge", args.collection.v, args.docId.v, args.data.fields))
       ELSE Issued(DocOp("update", args.collection.v, args.docId.v, args.data.fields))

\* a faulty default, for comparison: an unknown name is served as list_collections
UnknownToolFallsThrough(name) == Issued(Op("listCollections", "", "", NoFields))

\* the `default:` of the switch
UnknownTool(name) == Throws("Unknown tool: " \o name)

\* the switch, up to the first await of the case taken
Dispatch(name, args, autoId) ==
  IF name \notin KnownTools THEN UnknownTool(name)
  ELSE IF name = "list_collections" THEN Issued(Op("listCollections", "", "", NoFields))
  ELSE IF ~args.given
       THEN Throws("Cannot read properties of undefined (reading 'collection')")
  ELSE IF name = "create_document" THEN CreateDocument(args, autoId)
  ELSE IF name = "update_document" THEN UpdateDocument(args)
  ELSE IF ~ValidPath(args.collection)
       THEN Throws("collectionPath is not a valid resource path")
  ELSE IF name = "query_collection"
       THEN Issued(QueryOp(args.collection.v, LimitOf(args),
                           IF Truthy(args.orderBy) THEN args.orderBy.v ELSE "", Undefined))
  ELSE IF name = "query_with_where"
       THEN IF args.value.t = "undefined" THEN Throws("value is not a valid query constraint")
            ELSE Issued(QueryOp(args.collection.v, LimitOf(args), "", args.value))
  ELSE IF ~ValidDocPath(args.docId) THEN Throws("documentPath is not a valid resource path")
  ELSE IF name = "get_document" THEN Issued(DocOp("get", args.collection.v, args.docId.v, NoFields))
  ELSE Issued(DocOp("delete", args.collection.v, args.docId.v, NoFields))

\* a faulty id, for comparison: args.docId echoed instead of docRef.id
CreatedIdFromArgs(args, op) == args.docId.v

\* docRef.id of create_document: the id of the reference that was written
CreatedId(args, op) == op.id

\* the success payload of each case, built after its await
Payload(name, args, op) ==
  CASE name = "query_collection" ->
         [collection |-> args.collection.v, count |-> Len(QueryDocs(op)),
          documents |-> QueryDocs(op)]
    [] name = "query_with_where" ->
         [collection |-> args.collection.v, query |-> "a == " \o args.value.v,
          count |-> Len(QueryDocs(op)), documents |-> QueryDocs(op)]
    [] name = "get_document" ->
         [id |-> op.id, exists |-> store[op.collection][op.id].exists,
          data |-> IF store[op.collection][op.id].exists
                   THEN Data(store[op.collection][op.id].data) ELSE NoData]
    [] name = "list_collections" -> [collections |-> ListCollections]
    [] name = "create_document" ->
         [collection |-> args.collection.v, id |-> CreatedId(args, op),
          operation |-> "created"]
    [] name = "update_document" ->
         [collection |-> args.collection.v, id |-> args.docId.v, operation |-> "updated",
          merge |-> args.merge]
    [] OTHER ->
         [collection |-> args.collection.v, id |-> args.docId.v, operation |-> "deleted"]

MaxRequests == 2      \* tools/call requests received in one run
MaxListCalls == 1     \* tools/list requests answered in one run

NoArgs ==
  [given |-> FALSE, collection |-> Undefined, docId |-> Undefined, data |-> NoData,
   merge |-> Undefined, limit |-> Undefined, orderBy |-> Undefined, value |-> Undefined]
InUsers == [NoArgs EXCEPT !.given = TRUE, !.collection = Str("users")]
SetA == Data([f \in Fields |-> IF f = "a" THEN 1 ELSE 0])
SetB == Data([f \in Fields |-> IF f = "b" THEN 2 ELSE 0])

\* the requests a client sends: every tool, an unknown one, and arguments
\* left out, empty or of each accepted form
RequestInputs ==
  {[name |-> "drop_database", args |-> InUsers],
   [name |-> "list_collections", args |-> NoArgs],
   [name |-> "get_document", args |-> NoArgs],
   [name |-> "get_document", args |-> InUsers],
   [name |-> "get_document", args |-> [InUsers EXCEPT !.docId = Str("u1")]],
   [name |-> "query_collection", args |-> [InUsers EXCEPT !.limit = Num("1")]],
   [name |-> "query_collection", args |-> [InUsers EXCEPT !.orderBy = Str("a")]],
   [name |-> "query_with_where", args |-> [InUsers EXCEPT !.value = Num("1")]],
   [name |-> "delete_document", args |-> [InUsers EXCEPT !.docId = Str("u1")]]}
  \cup {[name |-> "create_document", args |-> [InUsers EXCEPT !.docId = d, !.data = SetA]] :
          d \in {Undefined, Str(""), Str("u1"), Str("s/t/u1")}}
  \cup {[name |-> "create_document", args |-> InUsers]}
  \cup {[name |-> "update_document",
         args |-> [InUsers EXCEPT !.docId = Str("u1"), !.data = SetB, !.merge = m]] :
          m \in {Undefined, Bool("true"), Bool("false")}}

\* the state of the handler of one request
Pending(input, op) ==
  [name |-> input.name, args |-> input.args, state |-> "pending", op |-> op,
   issued |-> 1, threw |-> FALSE, responses |-> <<>>]
Returns(request, payload) ==
  [request EXCEPT !.state = "done", !.responses = Append(request.responses, Success(payload))]
Rejected(request, message) ==
  [request EXCEPT !.state = "done", !.threw = TRUE,
                  !.responses = Append(request.responses, CatchToolError(message))]
ThrewBeforeAwait(input, message) ==
  [name |-> input.name, args |-> input.args, state |-> "done", op |-> NoOp,
   issued |-> 0, threw |-> TRUE, responses |-> <<CatchToolError(message)>>]

Serving == pc = "running" /\ exitCode = NotExited

\* Lines 142-236: the tools/list handler answers with the seven descriptors
ListTools ==
  /\ Serving
  /\ "tools/list" \in handlers
  /\ listed < MaxListCalls
  /\ listed' = listed + 1
  /\ UNCHANGED <<store, autoIds, requests, envVars, startVars>>

\* Lines 241-246 and the case taken, up to its await: the handler runs to
\* the Firestore call it awaits, or throws and answers from its catch.
CallTool ==
  /\ Serving
  /\ "tools/call" \in handlers
  /\ Len(requests) < MaxRequests
  /\ \E input \in RequestInputs :
       LET ran == Dispatch(input.name, input.args, AutoIdOrder[autoIds + 1])
       IN /\ requests' = Append(requests,
                           IF ran.threw THEN ThrewBeforeAwait(input, ran.message)
                           ELSE Pending(input, ran.op))
          /\ autoIds' = IF ~ran.threw /\ ran.op.kind = "add" THEN autoIds + 1 ELSE autoIds
  /\ UNCHANGED <<store, listed, envVars, startVars>>

\* The awaited Firestore call settles as the backend decides: the operation
\* is applied and the case returns its payload, or the backend refuses it
\* and the catch answers.
FirestoreCompletes ==
  /\ exitCode = NotExited
  /\ \E k \in 1..Len(requests) :
       LET r == requests[k]
       IN /\ r.state = "pending"
          /\ IF BackendRejects(r.op)
             THEN /\ store' = store
                  /\ requests' = [requests EXCEPT ![k] =
                       Rejected(r, "5 NOT_FOUND: No document to update")]
             ELSE /\ store' = Applied(r.op)
                  /\ requests' = [requests EXCEPT ![k] =
                       Returns(r, Payload(r.name, r.args, r.op))]
  /\ UNCHANGED <<autoIds, listed, envVars, startVars>>

\* The awaited Firestore call is rejected for a reason of the environment
\* (the service is unreachable, permission is denied): the catch answers.
FirestoreUnavailable ==
  /\ exitCode = NotExited
  /\ \E k \in 1..Len(requests) :
       /\ requests[k].state = "pending"
       /\ requests' = [requests EXCEPT ![k] =
            Rejected(requests[k], "14 UNAVAILABLE: No connection established")]
  /\ UNCHANGED <<store, autoIds, listed, envVars, startVars>>

\* The server's runs: GOOGLE_CLOUD_PROJECT unset, empty or a project, and
\* .firebaserc missing, cut short or naming a project; no gcloud.
Init ==
  /\ InitProcess
  /\ cwd = DirPath(1)
  /\ gcloud = GcloudFailed
  /\ \E e \in {Undefined, Str(""), Str("alpha")},
        rc \in {NoFile, "{ \"projects\": ", "{\"projects\":{\"default\":\"beta\"}}"} :
       /\ env = [n \in EnvNames |-> IF n = EnvOrder[1] THEN e ELSE Undefined]
       /\ fs = [d \in AncestorSet(DirPath(1)) |->
                  [f \in FileNames |-> IF d = DirPath(1) /\ f = ".firebaserc" THEN rc ELSE NoFile]]

Next ==
  \/ NextStartup
  \/ ListTools
  \/ CallTool
  \/ FirestoreCompletes
  \/ FirestoreUnavailable

Spec == Init /\ [][Next]_vars

(***************************************************************************)
(* The claims.  What follows states the specification's sentences about    *)
(* the model above; nothing below is used by Init or by an action.         *)
(***************************************************************************)
ResolverRan == detectCalls > 0

\* the level of an ancestor directory, the working directory being level 1
Level(dir) == Len(cwd) - Len(dir) + 1

\* what a source holds, undefined when it is absent, fails or cannot be parsed
SourceValue(source) ==
  CASE source.kind = "env" -> env[source.name]
    [] source.kind = "cli" ->
         IF gcloud.status = 0 THEN Str(Trim(gcloud.stdout)) ELSE Undefined
    [] OTHER ->
         LET text == fs[source.dir][source.name]
         IN IF text = NoFile \/ JSONParse(text).threw \/ ProjectsDefault(JSONParse(text)).threw
            THEN Undefined
            ELSE ProjectsDefault(JSONParse(text)).value

\* a source that is unavailable: it holds no value or an empty one
\* (JSON's null, false and 0 are counted as holding nothing)
HoldsNothing(val) == val \in {Undefined, Null, Str(""), Bool("false"), Num("0")}

\* the sources in the order of the specification: the environment variables
\* as listed, the CLI, then the levels of the walk nearest first, firebase.json
\* before .firebaserc, down to level 10 or the root
WalkedLevels == IF Len(cwd) + 1 < 10 THEN Len(cwd) + 1 ELSE 10
PriorityOrder ==
  <<EnvSource("GOOGLE_CLOUD_PROJECT"), EnvSource("FIREBASE_PROJECT_ID"),
    EnvSource("GCLOUD_PROJECT"), CliSource>>
  \o [m \in 1..(2 * WalkedLevels) |->
        FileSource(Ancestors(cwd)[(m + 1) \div 2],
                   IF m % 2 = 1 THEN "firebase.json" ELSE ".firebaserc")]
PriorityValues == LET order == PriorityOrder IN [k \in 1..Len(order) |-> SourceValue(order[k])]
NoSourceYields == LET values == PriorityValues IN \A k \in 1..Len(values) : HoldsNothing(values[k])
HighestPriorityValue ==
  LET values == PriorityValues
      available == {k \in 1..Len(values) : ~HoldsNothing(values[k])}
  IN IF available = {} THEN Null
     ELSE values[CHOOSE k \in available : \A j \in available : k <= j]

\* C1: once detectProjectId has run, its result is the value of the first
\* available source in the fixed priority order, whatever lower-priority
\* sources hold, and the not-found signal when no source is available.
C1_HighestPrioritySourceWins == ResolverRan => projectId = HighestPriorityValue

\* C1's case: GOOGLE_CLOUD_PROJECT=alpha and a .firebaserc naming beta; alpha is returned
C1_Witness ==
  /\ ResolverRan
  /\ env["GOOGLE_CLOUD_PROJECT"] = Str("alpha")
  /\ fs[cwd][".firebaserc"] = "{\"projects\":{\"default\":\"beta\"}}"
  /\ projectId = Str("alpha")

\* C2: when no source yields a value detectProjectId returns null and the
\* process has exited with code 1, with no Firestore client created, no
\* request handler registered and no request served.
C2_NotFoundIsFatal ==
  (ResolverRan /\ NoSourceYields) =>
    /\ projectId = Null
    /\ pc = "exited" /\ exitCode = {1}
    /\ ~dbCreated /\ probe = "none"
    /\ handlers = {} /\ requests = <<>> /\ listed = 0

\* C2's case: the only source is a .firebaserc cut short; the process has exited
C2_Witness ==
  /\ ResolverRan /\ NoSourceYields
  /\ fs[cwd][".firebaserc"] # NoFile
  /\ pc = "exited"

\* C3: every update_document that reached Firestore did a merge-set when its
\* merge argument was omitted or true, and an update() when it was false.
C3_OmittedMergeIsMergeSet ==
  \A k \in 1..Len(requests) :
    (requests[k].name = "update_document" /\ requests[k].issued = 1) =>
      requests[k].op.kind =
        (IF requests[k].args.merge = Bool("false") THEN "update" ELSE "setMerge")

\* C4: a request whose handler threw has been answered once, with isError
\* true and a non-empty error message; the process is alive and serving
\* whenever a request has been received, and takes the next request.
C4_ThrownErrorsAreAnswered ==
  /\ \A k \in 1..Len(requests) :
       requests[k].threw =>
         /\ requests[k].state = "done"
         /\ Len(requests[k].responses) = 1
         /\ requests[k].responses[1].isError
         /\ requests[k].responses[1].body.error # ""
  /\ requests # <<>> => Serving
  /\ ((\E k \in 1..Len(requests) : requests[k].threw) /\ Len(requests) < MaxRequests)
       => ENABLED CallTool

\* C4's case: a request that failed, and a later one answered with success
C4_Witness ==
  /\ Len(requests) >= 2
  /\ requests[1].threw /\ requests[1].responses[1].isError
  /\ requests[2].state = "done" /\ ~requests[2].responses[1].isError

\* the levels the walk has touched hold the claim's limit
C5_LogWithinLimit == \A k \in 1..Len(fsLog) : fsLog[k].op # "execSync" => Level(fsLog[k].dir) <= 10

Unusable(text) ==
  \/ JSONParse(text).threw
  \/ ProjectsDefault(JSONParse(text)).threw
  \/ ProjectsDefault(JSONParse(text)).value = Undefined

\* after the k-th call, the walk went on to the next candidate, if there is one
WalkWentOn(k) ==
  LET e == fsLog[k]
  IN IF e.file = "firebase.json"
     THEN k < Len(fsLog) /\ fsLog[k + 1] = LogEntry("existsSync", e.dir, ".firebaserc")
     ELSE \/ e.dir = <<>>
          \/ Level(e.dir) = 10
          \/ k < Len(fsLog)
               /\ fsLog[k + 1] = LogEntry("existsSync", JoinParent(e.dir), "firebase.json")

\* C6: detectProjectId raises nothing; after reading an unusable file it goes
\* on to the next candidate; a failing or silent gcloud is followed by the
\* file walk; and the result is still that of the first available source.
C6_UnusableSourcesArePassedOver ==
  ResolverRan =>
    /\ ~detectThrew
    /\ \A k \in 1..Len(fsLog) :
         (fsLog[k].op = "readFileSync" /\ Unusable(fs[fsLog[k].dir][fsLog[k].file]))
           => WalkWentOn(k)
    /\ ((\A n \in EnvNames : HoldsNothing(env[n])) /\ HoldsNothing(SourceValue(CliSource)))
         => /\ Len(fsLog) >= 2
            /\ fsLog[1].op = "execSync"
            /\ fsLog[2] = LogEntry("existsSync", cwd, "firebase.json")
    /\ (\E k \in 1..Len(fsLog) : fsLog[k].op = "readFileSync"
                                  /\ Unusable(fs[fsLog[k].dir][fsLog[k].file]))
         => projectId = HighestPriorityValue

\* C6's case: firebase.json is malformed, gcloud is not installed, and the
\* .firebaserc beside it gives the result
C6_Witness ==
  /\ ResolverRan
  /\ Len(cwd) >= 1
  /\ JSONParse(fs[cwd]["firebase.json"]).threw /\ fs[cwd]["firebase.json"] # NoFile
  /\ fs[cwd][".firebaserc"] = "{\"projects\":{\"default\":\"beta\"}}"
  /\ projectId = Str("beta")

\* C7 as written: a successful create_document answers with the supplied
\* docId, whatever it is, and otherwise with a non-empty generated id
C7_IdIsSuppliedDocId ==
  \A k \in 1..Len(requests) :
    (requests[k].name = "create_document" /\ requests[k].state = "done"
       /\ ~requests[k].responses[1].isError) =>
      IF requests[k].args.docId # Undefined
      THEN requests[k].responses[1].body.id = requests[k].args.docId.v
      ELSE requests[k].responses[1].body.id # ""

Created(k) ==
  /\ requests[k].name = "create_document" /\ requests[k].state = "done"
  /\ ~requests[k].responses[1].isError
Generated(k) == Created(k) /\ requests[k].args.docId \in {Undefined, Str("")}
\* a docId that is a document id: a non-empty string without "/"
IsDocumentId(val) == val.t = "string" /\ val.v \notin {"", "s/t/u1", "s/u1"}

\* C7, amended: a successful create_document whose docId is a document id (a
\* non-empty string without "/") answers with that docId; with docId omitted
\* or empty it answers with a non-empty generated id, and the generated ids
\* of one run are pairwise distinct.
C7_IdIsDocumentIdOrGenerated ==
  /\ \A k \in 1..Len(requests) :
       Created(k) =>
         /\ Generated(k) => requests[k].responses[1].body.id \notin {""} \cup SuppliedIds
         /\ IsDocumentId(requests[k].args.docId)
              => requests[k].responses[1].body.id = requests[k].args.docId.v
  /\ \A j, k \in 1..Len(requests) :
       (Generated(j) /\ Generated(k) /\ j # k)
         => requests[j].responses[1].body.id # requests[k].responses[1].body.id

\* C7's case: two creations without docId, answered with different ids
C7_Witness ==
  /\ Len(requests) >= 2
  /\ Generated(1) /\ Generated(2)
  /\ requests[1].args.docId = Undefined /\ requests[2].args.docId = Undefined
  /\ requests[1].responses[1].body.id # requests[2].responses[1].body.id

\* C8: detectProjectId runs once; a handler is registered or a request is
\* served only after the project ID was resolved and the probe succeeded; a
\* failed probe ends the process with code 1, nothing registered or served.
C8_ResolvedAndProbedBeforeServing ==
  /\ detectCalls <= 1
  /\ pc \in {"probing", "connecting", "running"} => (detectCalls = 1 /\ Truthy(projectId))
  /\ (handlers # {} \/ requests # <<>> \/ listed > 0 \/ pc \in {"connecting", "running"})
       => (detectCalls = 1 /\ Truthy(projectId) /\ probe = "ok")
  /\ probe = "failed" =>
       /\ pc = "exited" /\ exitCode = {1}
       /\ handlers = {} /\ requests = <<>> /\ listed = 0

\* C8's case: a request has been answered, after one resolution and a successful probe
C8_Witness ==
  /\ Len(requests) >= 1 /\ requests[1].state = "done"
  /\ listed = 1
  /\ detectCalls = 1 /\ probe = "ok"

\* C9 as written: every answered request did exactly one Firestore operation
C9_ExactlyOneOperation ==
  \A k \in 1..Len(requests) :
    requests[k].state = "done" => (requests[k].issued = 1 /\ Len(requests[k].responses) = 1)

\* C9, amended: every request does at most one Firestore operation, none when
\* its handler throws before its Firestore call (an unknown tool, arguments
\* missing or refused by the client) and one otherwise, and is answered once.
C9_AtMostOneOperation ==
  \A k \in 1..Len(requests) :
    /\ requests[k].issued <= 1
    /\ requests[k].issued = 1 <=> requests[k].op # NoOp
    /\ requests[k].name \notin KnownTools => requests[k].issued = 0
    /\ requests[k].state = "pending" => (requests[k].issued = 1 /\ requests[k].responses = <<>>)
    /\ requests[k].state = "done" =>
         /\ Len(requests[k].responses) = 1
         /\ requests[k].issued = 0 => requests[k].responses[1].isError

\* C9's case: an unknown tool, answered with an error and no Firestore operation
C9_Witness ==
  /\ Len(requests) >= 1
  /\ requests[1].name \notin KnownTools
  /\ requests[1].state = "done" /\ requests[1].issued = 0
  /\ requests[1].responses[1].isError

\* C10: the result of detectProjectId is the not-found signal or a non-empty
\* string: a projects.default that is a number, true, an object or an array
\* is not returned.
C10_ResultIsNonEmptyString ==
  ResolverRan => (projectId = Null \/ (projectId.t = "string" /\ projectId.v # ""))

====
